---------------------------- MODULE Spec2Model ----------------------------
(***************************************************************************)
(* The rate-limited outbound message queue of the moderation cog           *)
(* (src/cautions/cautions.py, Moderation.safe_send_message and             *)
(* Moderation.process_message_queue).                                      *)
(*                                                                         *)
(* The cog runs on one asyncio event loop.  A task (a command handler or a *)
(* background loop) runs without interruption from one `await` that        *)
(* suspends to the next, so every action below is the code between two     *)
(* suspension points.  process_message_queue is awaited by the             *)
(* safe_send_message call that starts it, so a worker is the part of a     *)
(* task spent inside that call.                                            *)
(*                                                                         *)
(* Time is counted in ticks of half a second, the finest duration the code *)
(* uses (asyncio.sleep(0.5)).  The code reads the clock only to take the   *)
(* difference time.time() - last_send and to sleep for a duration, so the  *)
(* state holds those differences and durations, not the clock itself: the  *)
(* time since last_send (counted up to MinSpacing, with which alone it is  *)
(* compared) and the time each sleep still has to run.                     *)
(***************************************************************************)
EXTENDS Integers, Sequences, FiniteSets, TLC

\* ------------------------------------------------------------- bounds
NumTasks == 3         \* tasks that call safe_send_message
MaxEnqueues == 3      \* safe_send_message calls in one behaviour
MaxRateLimits == 1    \* 429 answers in one behaviour

\* -------------------------------------------- program constants (ticks)
MinSpacing == 2           \* `if time_since_last < 1`, 1 s
InterMessageDelay == 1    \* asyncio.sleep(0.5)
DefaultRetryAfter == 10   \* `else 5`, 5 s

Tasks == 1..NumTasks
Channels == {"A", "B"}    \* str(channel.id)
NoRetryAfter == -1        \* the HTTPException has no retry_after attribute
RetryAfterValues == {1, 4}    \* e.retry_after: 0.5 s, 2 s

VARIABLES
    message_queue,    \* self.rate_limit["message_queue"]: channel_id -> queue_data
    task,             \* where each task is inside safe_send_message
    enqueued,         \* history: per channel, the entries appended, in order
    attempts,         \* history: per channel, the finished channel.send calls
    min_gap           \* history: per channel, the least time (up to MinSpacing)
                      \* from a recorded last_send to the start of the next
                      \* successful send

\* The caution commands of the same cog (warn_member, remove_warning,
\* clear_warnings) and its warning_cleanup_task, for one guild.
VARIABLES
    guild_config,     \* the "members" of the guild's config file: member -> data
    command,          \* where each caution command is inside warn_member
    cleanup,          \* where warning_cleanup_task is, and the config it read
    expired_upto,     \* the warnings issued up to this one are past their expiry
    issued,           \* history: the number of warnings issued
    kept,             \* history: per member, the warnings stored and not yet
                      \* removed by remove_warning, clear_warnings or the cleanup
    applied_count     \* history: per member and threshold, the automatic
                      \* actions applied since the member's last clear_warnings

queue_vars == <<message_queue, task, enqueued, attempts, min_gap>>

caution_vars ==
    <<guild_config, command, cleanup, expired_upto, issued, kept, applied_count>>

\* What the message queue's steps leave alone.
\* The Narutodle cog, for one game key (guild, channel, user and mode).
VARIABLES
    active_games,     \* self.active_games[game_key]: the game stored, or NoGame
    games,            \* the game dicts created, each with attempts, message_id
    play,             \* where each play command is inside _start_game, and
                      \* the game it creates
    guess,            \* where each on_message call is, and the game it holds
    played,           \* the played:... key of the day in Redis
    recorded,         \* history: per game, the calls of _record_user_answer
    removed,          \* history: per game, its removals from active_games
    key_errors,       \* history: the KeyErrors raised, per place
    plays_begun,      \* history: the play commands issued
    guesses_made      \* history: the guesses handled by on_message

trivia_vars ==
    <<active_games, games, play, guess, played, recorded, removed, key_errors,
      plays_begun, guesses_made>>

\* history: for every safe_send_message call made with channel None, the
\* channels that had queue data and those that had a worker at the call
VARIABLES none_calls

cog_vars == <<caution_vars, trivia_vars, none_calls>>

outside_caution == <<queue_vars, trivia_vars, none_calls>>

outside_trivia == <<queue_vars, caution_vars, none_calls>>

vars == <<queue_vars, cog_vars>>

\* ------------------------------------------------ the caution commands
NumCommands == 2      \* caution commands that can be under way at once
MaxCautions == 2      \* warn_member calls in one behaviour

Commands == 1..NumCommands
Members == {"m1", "m2"}          \* str(member.id)
PointValues == {1, 3, 5}         \* the `points` argument of the command
ActionThresholds == {3, 5, 10}   \* the keys of DEFAULT_ACTION_THRESHOLDS
NoThreshold == 0                 \* matching_thresholds is empty

\* A command outside warn_member.  A command inside it holds the member, the
\* guild_config it read and changed (config) and the total_points it computed.
Idle == [pc |-> "idle", member |-> "none", config |-> <<>>, total_points |-> 0,
         warning |-> 0]

\* `members_data[member_id] = {"warnings": [], "total_points": 0}`; a missing
\* "applied_thresholds" reads as the empty list.
NewMemberData == [warnings |-> <<>>, total_points |-> 0, applied_thresholds |-> <<>>]

CautionInit ==
    /\ guild_config = <<>>
    /\ command = [k \in Commands |-> Idle]
    /\ cleanup = [pc |-> "idle", config |-> <<>>]
    /\ expired_upto = 0
    /\ issued = 0
    /\ kept = [m \in Members |-> {}]
    /\ applied_count = [m \in Members |-> [t \in ActionThresholds |-> 0]]

\* The state of the other commands when the cog is loaded.
NumPlays == 2         \* play commands that can be under way at once
NumGuessers == 2      \* on_message calls that can be under way at once
MaxPlays == 2         \* play commands issued in a behaviour
MaxGuesses == 7       \* guesses handled in a behaviour
max_attempts == 6     \* "max_attempts": 6

Plays == 1..NumPlays
Guessers == 1..NumGuessers
GameIds == 1..MaxPlays
NoGame == 0
ErrorSites == {"lookup", "del", "message_id"}

TriviaInit ==
    /\ active_games = NoGame
    /\ games = [g \in GameIds |-> [attempts |-> 0, message_id |-> 0]]
    /\ play = [k \in Plays |-> [pc |-> "idle", game |-> NoGame]]
    /\ guess = [h \in Guessers |-> [pc |-> "idle", game |-> NoGame]]
    /\ played = FALSE
    /\ recorded = [g \in GameIds |-> 0]
    /\ removed = [g \in GameIds |-> 0]
    /\ key_errors = [e \in ErrorSites |-> 0]
    /\ plays_begun = 0
    /\ guesses_made = 0

MaxNoneCalls == 2     \* safe_send_message(None) calls in one behaviour

CogInit == CautionInit /\ TriviaInit /\ none_calls = <<>>

\* A task outside safe_send_message.  A task inside it holds the channel, the
\* message_data read at the loop top and the time its sleep has left (timer).
\* History: start_gap is the time since last_send when the send began,
\* retry_left what is left of the retry_after the entry's last 429 answer
\* carried.
Ready == [pc |-> "ready", channel |-> "none", message_data |-> <<>>, timer |-> 0,
          start_gap |-> 0, retry_left |-> 0]

\* The queue_data a channel gets on its first safe_send_message: last_send is
\* 0, the epoch, which is more than MinSpacing ago.
NewQueueData == [queue |-> <<>>, since_last_send |-> MinSpacing, processing |-> FALSE]

\* The queue_data is made anew on every call.
EnsureQueueFresh(mq, d) ==
    [e \in DOMAIN mq \cup {d} |-> IF e = d THEN NewQueueData ELSE mq[e]]

\* `if channel_id not in message_queue: message_queue[channel_id] = {...}`
EnsureQueue(mq, d) ==
    IF d \in DOMAIN mq THEN mq
    ELSE [e \in DOMAIN mq \cup {d} |-> IF e = d THEN NewQueueData ELSE mq[e]]

\* A queue that puts the newest entry first.
QueueAppendFront(q, m) == <<m>> \o q

\* `queue.append(message_data)`
QueueAppend(q, m) == Append(q, m)

\* A guard that starts a worker on every call.
ShouldStartAlways(mq, d) == TRUE

\* `if not message_queue[channel_id]["processing"]`
ShouldStart(mq, d) == ~mq[d].processing

\* The flag is left as it was.
MarkProcessingSkipped(mq, d) == mq

\* `message_queue[channel_id]["processing"] = True`
MarkProcessing(mq, d) == [mq EXCEPT ![d].processing = TRUE]

\* No wait before a send.
SpacingWaitNone(time_since_last) == 0

\* `if time_since_last < 1: await asyncio.sleep(1 - time_since_last)`: the
\* time to sleep, 0 for no sleep.
SpacingWait(time_since_last) ==
    IF time_since_last < MinSpacing THEN MinSpacing - time_since_last ELSE 0

\* No backoff.
RetryAfterZero(ra) == 0

\* The answer's retry_after is not looked at.
RetryAfterAlwaysDefault(ra) == DefaultRetryAfter

\* `retry_after = e.retry_after if hasattr(e, 'retry_after') else 5`
RetryAfter(ra) == IF ra = NoRetryAfter THEN DefaultRetryAfter ELSE ra

\* One last_send for all channels.
SetLastSendEverywhere(mq, d) == [e \in DOMAIN mq |-> [mq[e] EXCEPT !.since_last_send = 0]]

\* `queue_data["last_send"] = time.time()`
SetLastSend(mq, d) == [mq EXCEPT ![d].since_last_send = 0]

\* An exit that leaves the flag set.
WorkerExitFlagKept(mq, d) == [mq |-> mq, task |-> Ready]

\* The worker's exit: `finally: queue_data["processing"] = False`, and the
\* safe_send_message call that awaited it returns.
WorkerExit(mq, d) ==
    [mq |-> [mq EXCEPT ![d].processing = FALSE], task |-> Ready]

\* A worker that takes its entry from whichever queue has one.
LoopTopAnyQueue(mq, d, left) ==
    IF mq[d].queue = <<>>
    THEN WorkerExit(mq, d)
    ELSE LET e == CHOOSE x \in DOMAIN mq : mq[x].queue # <<>>
             m == Head(mq[e].queue)
         IN  [mq |-> mq,
              task |-> [pc |-> "sending", channel |-> d, message_data |-> m,
                        timer |-> 0, start_gap |-> mq[d].since_last_send,
                        retry_left |-> left]]

\* From `while queue_data["queue"]:` to the next await: the exit, the spacing
\* sleep or the call of channel.send.
LoopTop(mq, d, left) ==
    IF mq[d].queue = <<>>
    THEN WorkerExit(mq, d)
    ELSE LET w == SpacingWait(mq[d].since_last_send)
             m == Head(mq[d].queue)
         IN  IF w > 0
             THEN [mq |-> mq,
                   task |-> [pc |-> "spacing", channel |-> d, message_data |-> m,
                             timer |-> w, start_gap |-> 0, retry_left |-> left]]
             ELSE [mq |-> mq,
                   task |-> [pc |-> "sending", channel |-> d, message_data |-> m,
                             timer |-> 0, start_gap |-> mq[d].since_last_send,
                             retry_left |-> left]]

\* The delay without the pop.
PopAndDelayKeepsHead(mq, d, tk) ==
    [mq |-> mq,
     task |-> [tk EXCEPT !.pc = "delay", !.timer = InterMessageDelay,
                         !.start_gap = 0, !.retry_left = 0]]

\* `queue_data["queue"].pop(0)` and `await asyncio.sleep(0.5)`; pop(0) of an
\* empty list raises IndexError, which the outer handler turns into the exit.
PopAndDelay(mq, d, tk) ==
    IF mq[d].queue = <<>>
    THEN WorkerExit(mq, d)
    ELSE [mq |-> [mq EXCEPT ![d].queue = Tail(@)],
          task |-> [tk EXCEPT !.pc = "delay", !.timer = InterMessageDelay,
                              !.start_gap = 0, !.retry_left = 0]]

\* The record of one finished channel.send call.
Attempt(tk, result) == [id |-> tk.message_data, result |-> result]

\* The attempts made for entry m on channel d with the given result.
AttemptsOf(d, m, result) ==
    {i \in 1..Len(attempts[d]) :
        attempts[d][i].id = m /\ attempts[d][i].result = result}

\* The number of 429 answers entry m has received on channel d.
RateLimitsOf(d, m) == Cardinality(AttemptsOf(d, m, "rate_limited"))

\* The number of 429 answers given on channel d.
RateLimitsOn(d) ==
    Cardinality({i \in 1..Len(attempts[d]) : attempts[d][i].result = "rate_limited"})

RECURSIVE RateLimitsGiven(_)
\* The number of 429 answers given on the channels of S.
RateLimitsGiven(S) ==
    IF S = {} THEN 0
    ELSE LET d == CHOOSE x \in S : TRUE IN RateLimitsOn(d) + RateLimitsGiven(S \ {d})

\* The tasks running process_message_queue for channel d.
WorkersOn(d) == {c \in Tasks : task[c].pc # "ready" /\ task[c].channel = d}

Min(a, b) == IF a < b THEN a ELSE b

RECURSIVE TotalLen(_, _)
\* The number of entries the sequences f[d], d in S, hold together.
TotalLen(f, S) ==
    IF S = {} THEN 0
    ELSE LET d == CHOOSE x \in S : TRUE IN Len(f[d]) + TotalLen(f, S \ {d})

\* The payload of a call: the content, embed and file are passed on as they
\* are, so a payload is told apart by the channel and the number of the call.
MessageData(d) == <<d, Len(enqueued[d]) + 1>>

Init ==
    /\ message_queue = <<>>
    /\ task = [c \in Tasks |-> Ready]
    /\ enqueued = [d \in Channels |-> <<>>]
    /\ attempts = [d \in Channels |-> <<>>]
    /\ min_gap = [d \in Channels |-> MinSpacing]
    /\ CogInit

\* safe_send_message(channel, ...) called by task c, up to its first await.
\* Tasks outside safe_send_message do not differ, so the first of them calls.
Enqueue(c, d) ==
    /\ task[c].pc = "ready"
    /\ \A c2 \in Tasks : task[c2].pc = "ready" => c <= c2
    /\ TotalLen(enqueued, Channels) < MaxEnqueues
    /\ LET mq1 == EnsureQueue(message_queue, d)
           mq2 == [mq1 EXCEPT ![d].queue = QueueAppend(@, MessageData(d))]
       IN  IF ShouldStart(mq2, d)
           THEN LET r == LoopTop(MarkProcessing(mq2, d), d, 0)
                IN  /\ message_queue' = r.mq
                    /\ task' = [task EXCEPT ![c] = r.task]
           ELSE /\ message_queue' = mq2
                /\ UNCHANGED task
    /\ enqueued' = [enqueued EXCEPT ![d] = Append(@, MessageData(d))]
    /\ UNCHANGED <<attempts, min_gap>>
    /\ UNCHANGED cog_vars

\* `await asyncio.sleep(1 - time_since_last)` returns; channel.send is called.
SpacingWake(c) ==
    /\ task[c].pc = "spacing"
    /\ task[c].timer = 0
    /\ task' = [task EXCEPT
           ![c].pc = "sending",
           ![c].start_gap = message_queue[task[c].channel].since_last_send]
    /\ UNCHANGED <<message_queue, enqueued, attempts, min_gap>>
    /\ UNCHANGED cog_vars

\* channel.send returns: last_send is set, the head is popped, sleep(0.5).
SendOk(c) ==
    /\ task[c].pc = "sending"
    /\ LET d == task[c].channel
           r == PopAndDelay(SetLastSend(message_queue, d), d, task[c])
       IN  /\ message_queue' = r.mq
           /\ task' = [task EXCEPT ![c] = r.task]
           /\ attempts' = [attempts EXCEPT ![d] = Append(@, Attempt(task[c], "ok"))]
           /\ min_gap' = IF \E i \in 1..Len(attempts[d]) : attempts[d][i].result = "ok"
                         THEN [min_gap EXCEPT ![d] = Min(@, task[c].start_gap)]
                         ELSE min_gap
    /\ UNCHANGED enqueued
    /\ UNCHANGED cog_vars

\* A 429 answer that takes the entry off the queue.
SendRateLimitedPops(c, ra) ==
    /\ task[c].pc = "sending"
    /\ RateLimitsGiven(Channels) < MaxRateLimits
    /\ LET d == task[c].channel
       IN  /\ message_queue' = [message_queue EXCEPT ![d].queue = Tail(@)]
           /\ task' = [task EXCEPT
                  ![c].pc = "backoff",
                  ![c].timer = RetryAfter(ra),
                  ![c].start_gap = 0,
                  ![c].retry_left = IF ra = NoRetryAfter THEN 0 ELSE ra]
           /\ attempts' = [attempts EXCEPT ![d] = Append(@, Attempt(task[c], "rate_limited"))]
    /\ UNCHANGED <<enqueued, min_gap>>
    /\ UNCHANGED cog_vars

\* channel.send raises discord.HTTPException with status 429: sleep(retry_after).
SendRateLimited(c, ra) ==
    /\ task[c].pc = "sending"
    /\ RateLimitsGiven(Channels) < MaxRateLimits
    /\ LET d == task[c].channel
       IN  /\ task' = [task EXCEPT
                  ![c].pc = "backoff",
                  ![c].timer = RetryAfter(ra),
                  ![c].start_gap = 0,
                  ![c].retry_left = IF ra = NoRetryAfter THEN 0 ELSE ra]
           /\ attempts' = [attempts EXCEPT ![d] = Append(@, Attempt(task[c], "rate_limited"))]
    /\ UNCHANGED <<message_queue, enqueued, min_gap>>
    /\ UNCHANGED cog_vars

\* A failed send that sets last_send as a successful one does.
SendHTTPErrorStamped(c) ==
    /\ task[c].pc = "sending"
    /\ LET d == task[c].channel
           r == PopAndDelay(SetLastSend(message_queue, d), d, task[c])
       IN  /\ message_queue' = r.mq
           /\ task' = [task EXCEPT ![c] = r.task]
           /\ attempts' = [attempts EXCEPT ![d] = Append(@, Attempt(task[c], "http_error"))]
    /\ UNCHANGED <<enqueued, min_gap>>
    /\ UNCHANGED cog_vars

\* channel.send raises discord.HTTPException with another status: logged, the
\* head is popped, sleep(0.5).
SendHTTPError(c) ==
    /\ task[c].pc = "sending"
    /\ LET d == task[c].channel
           r == PopAndDelay(message_queue, d, task[c])
       IN  /\ message_queue' = r.mq
           /\ task' = [task EXCEPT ![c] = r.task]
           /\ attempts' = [attempts EXCEPT ![d] = Append(@, Attempt(task[c], "http_error"))]
    /\ UNCHANGED <<enqueued, min_gap>>
    /\ UNCHANGED cog_vars

\* channel.send raises an exception that is no discord.HTTPException: the
\* outer `except Exception` logs it and `finally` ends the worker.
SendError(c) ==
    /\ task[c].pc = "sending"
    /\ LET d == task[c].channel
           r == WorkerExit(message_queue, d)
       IN  /\ message_queue' = r.mq
           /\ task' = [task EXCEPT ![c] = r.task]
           /\ attempts' = [attempts EXCEPT ![d] = Append(@, Attempt(task[c], "error"))]
    /\ UNCHANGED <<enqueued, min_gap>>
    /\ UNCHANGED cog_vars

\* A worker that gives its entry up after one backoff.
BackoffWakeGivesUp(c) ==
    /\ task[c].pc = "backoff"
    /\ task[c].timer = 0
    /\ LET d == task[c].channel
           r == LoopTop([message_queue EXCEPT ![d].queue = Tail(@)], d, 0)
       IN  /\ message_queue' = r.mq
           /\ task' = [task EXCEPT ![c] = r.task]
    /\ UNCHANGED <<enqueued, attempts, min_gap>>
    /\ UNCHANGED cog_vars

\* `await asyncio.sleep(retry_after)` returns; `continue`.
BackoffWake(c) ==
    /\ task[c].pc = "backoff"
    /\ task[c].timer = 0
    /\ LET r == LoopTop(message_queue, task[c].channel, task[c].retry_left)
       IN  /\ message_queue' = r.mq
           /\ task' = [task EXCEPT ![c] = r.task]
    /\ UNCHANGED <<enqueued, attempts, min_gap>>
    /\ UNCHANGED cog_vars

\* `await asyncio.sleep(0.5)` returns; back to the `while`.
DelayWake(c) ==
    /\ task[c].pc = "delay"
    /\ task[c].timer = 0
    /\ LET r == LoopTop(message_queue, task[c].channel, 0)
       IN  /\ message_queue' = r.mq
           /\ task' = [task EXCEPT ![c] = r.task]
    /\ UNCHANGED <<enqueued, attempts, min_gap>>
    /\ UNCHANGED cog_vars

\* Something depends on the passing of time: a sleep that has not run out or
\* a last_send less than MinSpacing ago.
TimeMatters ==
    \/ \E c \in Tasks : task[c].timer > 0
    \/ \E d \in DOMAIN message_queue : message_queue[d].since_last_send < MinSpacing

\* One tick passes: sleeps run down and the time since each last_send grows.
\* A channel.send call in flight takes any number of ticks.  When nothing
\* depends on the time, a tick changes nothing the code can tell, and is
\* left out.
Tick ==
    /\ TimeMatters
    /\ task' = [c \in Tasks |->
                  [task[c] EXCEPT
                     !.timer = IF @ > 0 THEN @ - 1 ELSE 0,
                     !.retry_left = IF @ > 0 THEN @ - 1 ELSE 0]]
    /\ message_queue' = [d \in DOMAIN message_queue |->
                  [message_queue[d] EXCEPT !.since_last_send = Min(@ + 1, MinSpacing)]]
    /\ UNCHANGED <<enqueued, attempts, min_gap>>
    /\ UNCHANGED cog_vars

WorkerStep(c) ==
    \/ SpacingWake(c)
    \/ SendOk(c)
    \/ \E ra \in RetryAfterValues \cup {NoRetryAfter} : SendRateLimited(c, ra)
    \/ SendHTTPError(c)
    \/ SendError(c)
    \/ BackoffWake(c)
    \/ DelayWake(c)

Next ==
    \/ \E c \in Tasks, d \in Channels : Enqueue(c, d)
    \/ \E c \in Tasks : WorkerStep(c)
    \/ Tick

Spec == Init /\ [][Next]_vars

\* The event loop resumes every task whose await has completed, every
\* channel.send call ends, and time passes.
FairSpec == Spec /\ WF_vars(Tick) /\ \A c \in Tasks : WF_vars(WorkerStep(c))

\* channel.send raises the 429 exception once more, after the MaxRateLimits
\* answers the history holds: the same lines as SendRateLimited, which keep no
\* count of the answers; the history is left as it is, the last record on the
\* channel being a 429 answer for this entry already.
SendRateLimitedAgain(c, ra) ==
    /\ task[c].pc = "sending"
    /\ RateLimitsGiven(Channels) >= MaxRateLimits
    /\ attempts[task[c].channel] # <<>>
    /\ attempts[task[c].channel][Len(attempts[task[c].channel])]
          = Attempt(task[c], "rate_limited")
    /\ task' = [task EXCEPT
           ![c].pc = "backoff",
           ![c].timer = RetryAfter(ra),
           ![c].start_gap = 0,
           ![c].retry_left = IF ra = NoRetryAfter THEN 0 ELSE ra]
    /\ UNCHANGED <<message_queue, enqueued, attempts, min_gap>>
    /\ UNCHANGED cog_vars

\* The steps of the program when the provider may answer 429 any number of
\* times.
RetryNext ==
    \/ Next
    \/ \E c \in Tasks, ra \in RetryAfterValues \cup {NoRetryAfter} :
          SendRateLimitedAgain(c, ra)

RetrySpec == Init /\ [][RetryNext]_vars

\* ------------------------------------------- a call with channel None
\* The channel of a call that has none: log_action and the cleanup task pass
\* what guild.get_channel returned.
NoChannel == "None"

\* The queue data made for the key str(channel) before the channel is tested.
ReturnNoneLate(mq, channel) == EnsureQueue(mq, channel)

\* `if not channel: return None`: nothing below the test runs, and the
\* message_queue is as it was.
ReturnNone(mq, channel) == mq

\* safe_send_message(None, ...) called by task c: it returns None without an
\* await, and the task is outside safe_send_message as before.
EnqueueNone(c) ==
    /\ task[c].pc = "ready"
    /\ \A c2 \in Tasks : task[c2].pc = "ready" => c <= c2
    /\ Len(none_calls) < MaxNoneCalls
    /\ message_queue' = ReturnNone(message_queue, NoChannel)
    /\ none_calls' = Append(none_calls,
           [channels |-> DOMAIN message_queue,
            workers |-> {d \in DOMAIN message_queue : message_queue[d].processing}])
    /\ UNCHANGED <<task, enqueued, attempts, min_gap, caution_vars, trivia_vars>>

NoneNext ==
    \/ Next
    \/ \E c \in Tasks : EnqueueNone(c)

NoneSpec == Init /\ [][NoneNext]_vars

\* ------------------------------------------------ the caution commands
\* get_guild_config and save_guild_config read and write the file with no
\* await that suspends, so a command runs without interruption from its
\* get_guild_config to the next await of a send.

RECURSIVE SumPoints(_)
\* `sum(w.get("points", 1) for w in warnings)`
SumPoints(ws) == IF ws = <<>> THEN 0 ELSE Head(ws).points + SumPoints(Tail(ws))

\* `if member_id not in members_data: members_data[member_id] = {...}`
WithMember(cfg, m) ==
    IF m \in DOMAIN cfg THEN cfg
    ELSE [e \in DOMAIN cfg \cup {m} |-> IF e = m THEN NewMemberData ELSE cfg[e]]

\* The warnings of the member with the given ones, total_points recomputed.
SetWarnings(cfg, m, ws) ==
    [cfg EXCEPT ![m].warnings = ws, ![m].total_points = SumPoints(ws)]

\* `threshold_points, action_data = matching_thresholds[0]` after the
\* descending sort: the highest threshold not above total_points.
HighestThreshold(total_points) ==
    LET matching == {t \in ActionThresholds : t <= total_points}
    IN  IF matching = {} THEN NoThreshold
        ELSE CHOOSE t \in matching : \A u \in matching : u <= t

\* has_action_been_applied
HasActionBeenApplied(member_data, threshold_points) ==
    \E i \in 1..Len(member_data.applied_thresholds) :
        member_data.applied_thresholds[i] = threshold_points

\* The ids of the warnings a member's data holds.
WarningIds(cfg, m) ==
    IF m \in DOMAIN cfg
    THEN {cfg[m].warnings[i].id : i \in 1..Len(cfg[m].warnings)}
    ELSE {}

\* warn_member up to its first send: the config is read, the warning appended
\* and the config saved.
WarnMember(k, m, p) ==
    /\ command[k].pc = "idle"
    /\ issued < MaxCautions
    /\ LET cfg0 == WithMember(guild_config, m)
           cfg == SetWarnings(cfg0, m,
                      Append(cfg0[m].warnings, [id |-> issued + 1, points |-> p]))
       IN  /\ guild_config' = cfg
           /\ command' = [command EXCEPT ![k] =
                  [pc |-> "notify", member |-> m, config |-> cfg,
                   total_points |-> cfg[m].total_points, warning |-> issued + 1]]
    /\ issued' = issued + 1
    /\ kept' = [kept EXCEPT ![m] = @ \cup {issued + 1}]
    /\ UNCHANGED <<cleanup, expired_upto, applied_count, outside_caution>>

\* warn_member after safe_send_message and log_action have returned: the
\* threshold check on the config and total_points the command holds; a
\* threshold not yet applied is marked, the held config saved and the action
\* applied.
WarnThreshold(k) ==
    /\ command[k].pc = "notify"
    /\ LET m == command[k].member
           cfg == command[k].config
           t == HighestThreshold(command[k].total_points)
       IN  IF t # NoThreshold /\ ~HasActionBeenApplied(cfg[m], t)
           THEN /\ guild_config' = [cfg EXCEPT ![m].applied_thresholds = Append(@, t)]
                /\ applied_count' = [applied_count EXCEPT ![m][t] = @ + 1]
           ELSE UNCHANGED <<guild_config, applied_count>>
    /\ command' = [command EXCEPT ![k] = Idle]
    /\ UNCHANGED <<cleanup, expired_upto, issued, kept, outside_caution>>

\* remove_warning: the config is read, the warning at warning_index popped,
\* total_points recomputed and the config saved, with no await between.
RemoveWarning(m, warning_index) ==
    /\ m \in DOMAIN guild_config
    /\ warning_index \in 1..Len(guild_config[m].warnings)
    /\ LET ws == guild_config[m].warnings
           rest == [i \in 1..(Len(ws) - 1) |->
                       IF i < warning_index THEN ws[i] ELSE ws[i + 1]]
       IN  /\ guild_config' = SetWarnings(guild_config, m, rest)
           /\ kept' = [kept EXCEPT ![m] = @ \ {ws[warning_index].id}]
    /\ UNCHANGED <<command, cleanup, expired_upto, issued, applied_count, outside_caution>>

\* clear_warnings for a member that has warnings: warnings, total_points and
\* applied_thresholds are emptied and the config saved, with no await between.
ClearWarnings(m) ==
    /\ m \in DOMAIN guild_config
    /\ guild_config[m].warnings # <<>>
    /\ guild_config' = [guild_config EXCEPT ![m] = NewMemberData]
    /\ kept' = [kept EXCEPT ![m] = {}]
    /\ applied_count' = [applied_count EXCEPT ![m] = [t \in ActionThresholds |-> 0]]
    /\ UNCHANGED <<command, cleanup, expired_upto, issued, outside_caution>>

\* Time passes: the oldest warning not yet past its expiry gets past it.
\* Every warning of a guild expires warning_expiry_days after its timestamp,
\* so warnings expire in the order they were issued.
WarningExpires ==
    /\ expired_upto < issued
    /\ expired_upto' = expired_upto + 1
    /\ UNCHANGED <<guild_config, command, cleanup, issued, kept, applied_count,
                   outside_caution>>

IsNotExpired(w) == w.id > expired_upto

\* The loop of warning_cleanup_task over the members of the config it read:
\* `if current_time < expiry_time: updated_warnings.append(warning)`.
WithoutExpired(cfg) ==
    [m \in DOMAIN cfg |->
        LET updated_warnings == SelectSeq(cfg[m].warnings, IsNotExpired)
        IN  IF Len(cfg[m].warnings) # Len(updated_warnings)
            THEN [cfg[m] EXCEPT !.warnings = updated_warnings,
                                !.total_points = SumPoints(updated_warnings)]
            ELSE cfg[m]]

\* warning_cleanup_task for the guild: the config is read and the expired
\* warnings are taken out of the copy.  When warnings were taken out, the
\* task awaits safe_send_message for the log channel, which suspends it
\* (suspends) unless no log channel is set or the channel's worker is
\* running; otherwise it saves the copy at once.
CleanupRead(suspends) ==
    /\ cleanup.pc = "idle"
    /\ LET cfg == WithoutExpired(guild_config)
       IN  /\ kept' = [m \in Members |->
                         kept[m] \ (WarningIds(guild_config, m) \ WarningIds(cfg, m))]
           /\ IF suspends /\ cfg # guild_config
              THEN /\ cleanup' = [pc |-> "sending", config |-> cfg]
                   /\ UNCHANGED guild_config
              ELSE /\ guild_config' = cfg
                   /\ UNCHANGED cleanup
    /\ UNCHANGED <<command, expired_upto, issued, applied_count, outside_caution>>

\* `guild_data["members"] = members_data; save_guild_config(...)` after the
\* sends have returned.
CleanupSave ==
    /\ cleanup.pc = "sending"
    /\ guild_config' = cleanup.config
    /\ cleanup' = [pc |-> "idle", config |-> <<>>]
    /\ UNCHANGED <<command, expired_upto, issued, kept, applied_count, outside_caution>>

CautionNext ==
    \/ \E k \in Commands, m \in Members, p \in PointValues : WarnMember(k, m, p)
    \/ \E k \in Commands : WarnThreshold(k)
    \/ \E m \in Members, i \in 1..MaxCautions : RemoveWarning(m, i)
    \/ \E m \in Members : ClearWarnings(m)
    \/ WarningExpires
    \/ \E suspends \in BOOLEAN : CleanupRead(suspends)
    \/ CleanupSave

CautionSpec == Init /\ [][CautionNext]_vars

\* ------------------------------------------------ the Narutodle game
\* One game key.  A play command runs _start_game, a message of the user in
\* the channel runs on_message and _process_guess, `narutodle cancel` runs
\* narutodle_cancel.  Each action is the code between two awaits that wait
\* for Redis or for Discord.

KeyError(site) == [key_errors EXCEPT ![site] = @ + 1]

\* A play command arrives: _start_game awaits redis.exists(played_key).
PlayBegin(k) ==
    /\ play[k].pc = "idle"
    /\ plays_begun < MaxPlays
    /\ play' = [play EXCEPT ![k] = [pc |-> "checking", game |-> plays_begun + 1]]
    /\ plays_begun' = plays_begun + 1
    /\ UNCHANGED <<active_games, games, guess, played, recorded, removed,
                   key_errors, guesses_made, outside_trivia>>

\* `if await self._check_already_played(...)` and
\* `if game_key in self.active_games`: either rejects the command; otherwise
\* _start_game awaits get_current_narutodle.
PlayCheck(k) ==
    /\ play[k].pc = "checking"
    /\ play' = [play EXCEPT ![k] =
                   IF played \/ active_games # NoGame
                   THEN [pc |-> "idle", game |-> NoGame]
                   ELSE [@ EXCEPT !.pc = "fetching"]]
    /\ UNCHANGED <<active_games, games, guess, played, recorded, removed,
                   key_errors, plays_begun, guesses_made, outside_trivia>>

\* get_current_narutodle has returned: an error ends the command, otherwise
\* the game is stored under the key and the challenge is sent.
PlayStore(k, error) ==
    /\ play[k].pc = "fetching"
    /\ IF error
       THEN /\ play' = [play EXCEPT ![k] = [pc |-> "idle", game |-> NoGame]]
            /\ UNCHANGED active_games
       ELSE /\ active_games' = play[k].game
            /\ play' = [play EXCEPT ![k].pc = "sending"]
    /\ UNCHANGED <<games, guess, played, recorded, removed, key_errors,
                   plays_begun, guesses_made, outside_trivia>>

\* ctx.send has returned:
\* `self.active_games[game_key]["message_id"] = message.id`.
PlaySent(k) ==
    /\ play[k].pc = "sending"
    /\ IF active_games = NoGame
       THEN /\ key_errors' = KeyError("message_id")
            /\ UNCHANGED games
       ELSE /\ games' = [games EXCEPT ![active_games].message_id = k]
            /\ UNCHANGED key_errors
    /\ play' = [play EXCEPT ![k] = [pc |-> "idle", game |-> NoGame]]
    /\ UNCHANGED <<active_games, guess, played, recorded, removed, plays_begun,
                   guesses_made, outside_trivia>>

\* on_message for a message of the user that is no command, while the key
\* is in active_games: it awaits bot.get_context.
OnMessage(h) ==
    /\ guess[h].pc = "idle"
    /\ guesses_made < MaxGuesses
    /\ active_games # NoGame
    /\ guess' = [guess EXCEPT ![h] = [pc |-> "context", game |-> NoGame]]
    /\ guesses_made' = guesses_made + 1
    /\ UNCHANGED <<active_games, games, play, played, recorded, removed,
                   key_errors, plays_begun, outside_trivia>>

\* `game = self.active_games[game_key]`, then _process_guess up to its
\* first await for Discord: attempts is incremented, attempts_left and
\* is_correct are computed and the branch is taken.
ProcessGuess(h, is_correct) ==
    /\ guess[h].pc = "context"
    /\ IF active_games = NoGame
       THEN /\ key_errors' = KeyError("lookup")
            /\ guess' = [guess EXCEPT ![h] = [pc |-> "idle", game |-> NoGame]]
            /\ UNCHANGED games
       ELSE LET game == active_games
                attempts_left == max_attempts - (games[game].attempts + 1)
            IN  /\ games' = [games EXCEPT ![game].attempts = @ + 1]
                /\ guess' = [guess EXCEPT ![h] =
                       [pc |-> IF is_correct THEN "correct"
                               ELSE IF attempts_left <= 0 THEN "game_over"
                               ELSE "incorrect",
                        game |-> game]]
                /\ UNCHANGED key_errors
    /\ UNCHANGED <<active_games, play, played, recorded, removed, plays_begun,
                   guesses_made, outside_trivia>>

\* The reaction and the result message are sent; _record_user_answer sets
\* the played key and the statistics in Redis.
RecordUserAnswer(h) ==
    /\ guess[h].pc \in {"correct", "game_over"}
    /\ recorded' = [recorded EXCEPT ![guess[h].game] = @ + 1]
    /\ played' = TRUE
    /\ guess' = [guess EXCEPT ![h].pc = "removing"]
    /\ UNCHANGED <<active_games, games, play, removed, key_errors, plays_begun,
                   guesses_made, outside_trivia>>

\* `del self.active_games[game_key]` at the end of either branch.
RemoveGame(h) ==
    /\ guess[h].pc = "removing"
    /\ IF active_games = NoGame
       THEN /\ key_errors' = KeyError("del")
            /\ UNCHANGED <<active_games, removed>>
       ELSE /\ removed' = [removed EXCEPT ![active_games] = @ + 1]
            /\ active_games' = NoGame
            /\ UNCHANGED key_errors
    /\ guess' = [guess EXCEPT ![h] = [pc |-> "idle", game |-> NoGame]]
    /\ UNCHANGED <<games, play, played, recorded, plays_begun, guesses_made,
                   outside_trivia>>

\* The incorrect guess with attempts remaining: the reaction is added and
\* the footer of the challenge edited; nothing of the game changes.
IncorrectGuess(h) ==
    /\ guess[h].pc = "incorrect"
    /\ guess' = [guess EXCEPT ![h] = [pc |-> "idle", game |-> NoGame]]
    /\ UNCHANGED <<active_games, games, play, played, recorded, removed,
                   key_errors, plays_begun, guesses_made, outside_trivia>>

\* narutodle_cancel with the key in active_games: the key is deleted.
NarutodleCancel ==
    /\ active_games # NoGame
    /\ removed' = [removed EXCEPT ![active_games] = @ + 1]
    /\ active_games' = NoGame
    /\ UNCHANGED <<games, play, guess, played, recorded, key_errors,
                   plays_begun, guesses_made, outside_trivia>>

TriviaNext ==
    \/ \E k \in Plays : PlayBegin(k)
    \/ \E k \in Plays : PlayCheck(k)
    \/ \E k \in Plays, error \in BOOLEAN : PlayStore(k, error)
    \/ \E k \in Plays : PlaySent(k)
    \/ \E h \in Guessers : OnMessage(h)
    \/ \E h \in Guessers, is_correct \in BOOLEAN : ProcessGuess(h, is_correct)
    \/ \E h \in Guessers : RecordUserAnswer(h)
    \/ \E h \in Guessers : RemoveGame(h)
    \/ \E h \in Guessers : IncorrectGuess(h)
    \/ NarutodleCancel

TriviaSpec == Init /\ [][TriviaNext]_vars

\* ------------------------------------------------------------ claims

RECURSIVE IsSubseq(_, _)
\* s can be obtained from t by leaving entries out.
IsSubseq(s, t) ==
    IF s = <<>> THEN TRUE
    ELSE IF t = <<>> THEN FALSE
    ELSE IF Head(s) = Head(t) THEN IsSubseq(Tail(s), Tail(t))
    ELSE IsSubseq(s, Tail(t))

IsOk(a) == a.result = "ok"

\* The entries channel d's workers have sent successfully, in order.
SentIds(d) ==
    LET oks == SelectSeq(attempts[d], IsOk)
    IN  [i \in 1..Len(oks) |-> oks[i].id]

\* The entries appended to channel d's queue so far.
Entries(d) == {enqueued[d][i] : i \in 1..Len(enqueued[d])}

\* The place of entry m in the order of channel d's enqueues.
EnqueuePos(d, m) == CHOOSE i \in 1..Len(enqueued[d]) : enqueued[d][i] = m

\* The results of the attempts made for entry m on channel d, in order.
ResultsOf(d, m) ==
    LET IsM(a) == a.id = m
        mine == SelectSeq(attempts[d], IsM)
    IN  [i \in 1..Len(mine) |-> mine[i].result]

\* C1: on every channel the successfully sent payloads are a subsequence of
\* the enqueued ones in the same order, and send attempts (finished or in
\* flight) are made in enqueue order.
C1_FifoOrder ==
    \A d \in Channels :
        /\ IsSubseq(SentIds(d), enqueued[d])
        /\ \A i, j \in 1..Len(attempts[d]) :
              i < j => EnqueuePos(d, attempts[d][i].id) <= EnqueuePos(d, attempts[d][j].id)
        /\ \A c \in WorkersOn(d) : \A i \in 1..Len(attempts[d]) :
              task[c].pc = "sending" =>
                  EnqueuePos(d, attempts[d][i].id) <= EnqueuePos(d, task[c].message_data)

\* A channel with two entries sent, one entry dropped and one 429 answer.
C1_Witness ==
    \E d \in Channels :
        /\ Len(SentIds(d)) >= 2
        /\ \E i \in 1..Len(attempts[d]) : attempts[d][i].result = "rate_limited"
        /\ \E i \in 1..Len(attempts[d]) : attempts[d][i].result = "http_error"

\* C2: at most one task runs process_message_queue for a channel.
C2_OneWorker == \A d \in Channels : Cardinality(WorkersOn(d)) <= 1

\* A worker is running and a second call has appended behind it.
C2_Witness ==
    \E d \in DOMAIN message_queue :
        /\ Cardinality(WorkersOn(d)) = 1
        /\ Len(message_queue[d].queue) >= 2
        /\ \E c \in Tasks : task[c].pc = "ready"

\* C3: while a worker runs for a channel no task enters process_message_queue
\* for it, and a call that finds the processing flag set appends its payload
\* and does nothing else.
C3_OneStart ==
    [][\A d \in Channels :
          /\ WorkersOn(d) # {} => WorkersOn(d)' \subseteq WorkersOn(d)
          /\ (d \in DOMAIN message_queue /\ message_queue[d].processing
                /\ enqueued'[d] # enqueued[d])
             => /\ message_queue' =
                      [message_queue EXCEPT ![d].queue = Append(@, MessageData(d))]
                /\ task' = task]_vars

\* MaxEnqueues calls on one channel, all made before the worker that the
\* first of them started has finished its first send.
C3_Witness ==
    \E d \in Channels :
        /\ Len(enqueued[d]) = MaxEnqueues
        /\ attempts[d] = <<>>
        /\ Cardinality(WorkersOn(d)) = 1

\* C4: every safe_send_message call has returned by the time its task is
\* suspended: no task waits inside it for a send, a spacing sleep, a backoff
\* or the delay between messages.
C4_EnqueueReturnsAtOnce == \A c \in Tasks : task[c].pc = "ready"

\* C5: the later of two consecutive successful sends on a channel starts at
\* least MinSpacing after the last_send recorded for the earlier.
C5_MinSpacing == \A d \in Channels : min_gap[d] >= MinSpacing

\* Two successful sends with a dropped or rate-limited attempt between them.
C5_Witness ==
    \E d \in Channels : \E i \in 1..Len(attempts[d]) :
        /\ i + 2 <= Len(attempts[d])
        /\ attempts[d][i].result = "ok"
        /\ attempts[d][i + 1].result \in {"http_error", "rate_limited"}
        /\ attempts[d][i + 2].result = "ok"

\* C6: an entry whose first attempt is answered 429 with retry_after d and
\* whose next attempt succeeds is sent once, is attempted no more and is off
\* the queue; no attempt starts before the retry_after of the 429 answer
\* before it has passed.
C6_RetryOnce ==
    /\ \A c \in Tasks : task[c].pc = "sending" => task[c].retry_left = 0
    /\ \A d \in Channels : \A m \in Entries(d) :
          LET r == ResultsOf(d, m)
          IN  (Len(r) >= 2 /\ r[1] = "rate_limited" /\ r[2] = "ok")
              => /\ Len(r) = 2
                 /\ \A i \in 1..Len(message_queue[d].queue) : message_queue[d].queue[i] # m
                 /\ \A c \in Tasks : task[c].pc \in {"spacing", "sending", "backoff"}
                                        => task[c].message_data # m

\* An entry answered 429 and then sent.
C6_Witness ==
    \E d \in Channels : \E m \in Entries(d) :
        ResultsOf(d, m) = <<"rate_limited", "ok">>

\* C7: a send attempt that fails with anything but a rate limit removes the
\* head entry and leaves the worker running (in the delay before the next
\* entry).
C7_DropOnFailure ==
    [][\A c \in Tasks :
          (/\ task[c].pc = "sending"
           /\ Len(attempts'[task[c].channel]) > Len(attempts[task[c].channel])
           /\ attempts'[task[c].channel][Len(attempts'[task[c].channel])].result
                 \in {"http_error", "error"})
          => /\ message_queue'[task[c].channel].queue
                   = Tail(message_queue[task[c].channel].queue)
             /\ task'[c].pc = "delay"]_vars

\* The state of channel e that its worker reads and writes.
ChannelState(e) ==
    <<IF e \in DOMAIN message_queue THEN <<message_queue[e]>> ELSE <<>>,
      attempts[e], min_gap[e], enqueued[e]>>

\* C8: a step of the worker of one channel leaves every other channel's
\* queue, last_send, processing flag and worker as they are.
C8_Independent ==
    [][\A c \in Tasks :
          (task[c].pc # "ready" /\ task'[c].pc # task[c].pc)
          => /\ \A e \in Channels \ {task[c].channel} : ChannelState(e)' = ChannelState(e)
             /\ \A c2 \in Tasks \ {c} : task'[c2] = task[c2]]_vars

\* Channel B's entry has just been sent while the worker of channel A has
\* been in a backoff for at least a tick and has more of it to sit out.
C8_Witness ==
    \E a, b \in Tasks :
        /\ task[a].pc = "backoff"
        /\ task[a].timer < DefaultRetryAfter
        /\ \A ra \in RetryAfterValues : task[a].timer > ra
        /\ task[b].pc = "delay"
        /\ task[b].channel # task[a].channel
        /\ message_queue[task[b].channel].since_last_send = 0
        /\ attempts[task[b].channel] # <<>>
        /\ attempts[task[b].channel][Len(attempts[task[b].channel])].result = "ok"

\* C9: once no more calls are made, every channel's queue is empty for good.
C9_EventuallyDrained ==
    <>[](\A d \in DOMAIN message_queue : message_queue[d].queue = <<>>)

\* C10: an entry is attempted at most once more than it was answered 429.
C10_NoRetryAfterFailure ==
    \A d \in Channels : \A m \in Entries(d) :
        Len(ResultsOf(d, m)) <= 1 + RateLimitsOf(d, m)

\* The entries of channel d that left its queue: sent, or dropped after a
\* failed send.
Consumed(d) ==
    {attempts[d][i].id : i \in {j \in 1..Len(attempts[d]) :
                                  attempts[d][j].result \in {"ok", "http_error"}}}

\* The number of entries of channel d dropped after a failed send.
DroppedCount(d) ==
    Cardinality({i \in 1..Len(attempts[d]) : attempts[d][i].result = "http_error"})

\* The queue of channel d, empty before the channel's first call.
QueueOf(d) == IF d \in DOMAIN message_queue THEN message_queue[d].queue ELSE <<>>

\* C11: on every channel the entries enqueued are as many as those sent, those
\* dropped after a failed send and those in the queue together; no entry is
\* sent twice; the queue holds, in enqueue order, the entries neither sent
\* nor dropped, so a send or a drop removes the entry it was made for, which
\* is the head the worker holds.
C11_Conserved ==
    \A d \in Channels :
        /\ Len(enqueued[d]) = Len(SentIds(d)) + DroppedCount(d) + Len(QueueOf(d))
        /\ \A i, j \in 1..Len(SentIds(d)) : SentIds(d)[i] = SentIds(d)[j] => i = j
        /\ LET Waiting(m) == m \notin Consumed(d)
           IN  QueueOf(d) = SelectSeq(enqueued[d], Waiting)
        /\ \A c \in WorkersOn(d) :
              task[c].pc \in {"spacing", "sending", "backoff"}
                  => task[c].message_data = Head(QueueOf(d))

\* A channel with an entry sent, an entry dropped and an entry in the queue.
C11_Witness ==
    \E d \in Channels :
        /\ Len(SentIds(d)) >= 1
        /\ DroppedCount(d) >= 1
        /\ Len(QueueOf(d)) >= 1

\* The last finished channel.send call on channel d.
LastAttempt(d) == attempts[d][Len(attempts[d])]

\* A channel.send call on channel d finishes in this step.
AttemptEnds(d) == Len(attempts'[d]) > Len(attempts[d])

\* C12: a 429 answer leaves the channel's queue, last_send and processing
\* flag as they are, with the flag set and the worker in its backoff; the
\* attempt after a 429 answer is for the same entry; an enqueue made while
\* the worker is in a backoff leaves the head and the worker as they are.
C12_RateLimitFrame ==
    [][\A d \in Channels :
          /\ (AttemptEnds(d) /\ LastAttempt(d)'.result = "rate_limited")
             => /\ message_queue'[d] = message_queue[d]
                /\ message_queue'[d].processing
                /\ \E c \in WorkersOn(d) :
                      /\ task'[c].pc = "backoff"
                      /\ task'[c].message_data = Head(message_queue'[d].queue)
          /\ (AttemptEnds(d) /\ attempts[d] # <<>>
                /\ LastAttempt(d).result = "rate_limited")
             => LastAttempt(d)'.id = LastAttempt(d).id
          /\ (enqueued'[d] # enqueued[d]
                /\ \E c \in WorkersOn(d) : task[c].pc = "backoff")
             => /\ Head(message_queue'[d].queue) = Head(message_queue[d].queue)
                /\ task' = task]_vars

\* An entry answered 429 and attempted again while a later entry waits
\* behind it in the queue.
C12_Witness ==
    \E d \in Channels : \E i \in 1..Len(attempts[d]) :
        /\ i < Len(attempts[d])
        /\ attempts[d][i].result = "rate_limited"
        /\ attempts[d][i + 1].id = attempts[d][i].id
        /\ Len(QueueOf(d)) >= 1
        /\ Len(enqueued[d]) >= 2

\* The worker of channel d returns in this step.
WorkerEnds(d) == WorkersOn(d) # {} /\ WorkersOn(d)' = {}

\* C13: the worker of a channel returns only with the channel's queue empty
\* and the processing flag cleared in that same step; a call made for a
\* channel with no worker sets the flag and starts a worker on the entry it
\* appended.
C13_ExitOnlyWhenEmpty ==
    [][\A d \in Channels :
          /\ WorkerEnds(d)
             => /\ message_queue'[d].queue = <<>>
                /\ ~message_queue'[d].processing
          /\ (enqueued'[d] # enqueued[d] /\ WorkersOn(d) = {})
             => /\ message_queue'[d].processing
                /\ \E c \in WorkersOn(d)' : task'[c].message_data = MessageData(d)]_vars

\* C14: a worker answered 429 sleeps for the retry_after the answer carries,
\* or for DefaultRetryAfter when it carries none, and for no other time: the
\* sleep starts with that time to run and the worker leaves it only when it
\* has run out.
C14_BackoffDuration ==
    [][\A c \in Tasks :
          /\ (task[c].pc = "sending" /\ task'[c].pc = "backoff")
             => /\ task'[c].retry_left \in RetryAfterValues \cup {0}
                /\ task'[c].timer = IF task'[c].retry_left = 0
                                    THEN DefaultRetryAfter
                                    ELSE task'[c].retry_left
          /\ (task[c].pc = "backoff" /\ task'[c].pc = "backoff")
             => task'[c].timer \in {task[c].timer, task[c].timer - 1}
          /\ (task[c].pc = "backoff" /\ task'[c].pc # "backoff")
             => task[c].timer = 0]_vars

\* A worker that has just begun a backoff of DefaultRetryAfter: the 429
\* answer carried no retry_after.
C14_Witness ==
    \E c \in Tasks :
        /\ task[c].pc = "backoff"
        /\ task[c].retry_left = 0
        /\ task[c].timer = DefaultRetryAfter
        /\ LastAttempt(task[c].channel).result = "rate_limited"

\* C15: the time since a channel's last_send goes back to 0 (last_send is
\* set to the present) in the step that ends a successful send on that
\* channel and in no other; it grows only as time passes; any other step,
\* on this channel or another, leaves it as it is.  last_send is therefore
\* never set to an earlier time.
C15_LastSendFrame ==
    [][\A d \in DOMAIN message_queue :
          LET since == message_queue[d].since_last_send
              since2 == message_queue'[d].since_last_send
              sent == AttemptEnds(d) /\ LastAttempt(d)'.result = "ok"
          IN  /\ sent => since2 = 0
              /\ since2 < since => sent
              /\ since2 > since
                 => /\ since2 = since + 1
                    /\ attempts' = attempts /\ enqueued' = enqueued
                    /\ \A c \in Tasks : task'[c].pc = task[c].pc
              /\ since2 >= 0]_vars

\* A channel whose last attempt failed or was answered 429 after an earlier
\* successful send, in a state where another channel has just had a
\* successful send.
C15_Witness ==
    \E d, e \in DOMAIN message_queue :
        /\ d # e
        /\ attempts[d] # <<>>
        /\ LastAttempt(d).result \in {"http_error", "error", "rate_limited"}
        /\ SentIds(d) # <<>>
        /\ message_queue[d].since_last_send > 0
        /\ message_queue[e].since_last_send = 0

\* C16: a channel has a queue_data exactly when a call has been made for it;
\* the first call makes it with an empty queue, last_send 0 and the flag
\* clear, and goes on to append its entry and start the worker; no step
\* removes a queue_data, and a later call appends to the queue it finds and
\* leaves last_send as it is.
C16_LazyAndPersistent ==
    /\ [](\A d \in Channels : d \in DOMAIN message_queue <=> enqueued[d] # <<>>)
    /\ [][\A d \in Channels :
             /\ d \in DOMAIN message_queue => d \in DOMAIN message_queue'
             /\ (d \notin DOMAIN message_queue /\ d \in DOMAIN message_queue')
                => /\ NewQueueData = [queue |-> <<>>, since_last_send |-> MinSpacing,
                                      processing |-> FALSE]
                   /\ message_queue'[d] = [NewQueueData EXCEPT
                                              !.queue = <<MessageData(d)>>,
                                              !.processing = TRUE]
             /\ (d \in DOMAIN message_queue /\ enqueued'[d] # enqueued[d])
                => /\ message_queue'[d].queue
                         = Append(message_queue[d].queue, MessageData(d))
                   /\ message_queue'[d].since_last_send
                         = message_queue[d].since_last_send]_vars

\* A channel whose worker has sent, drained the queue and returned less than
\* MinSpacing ago: the queue_data is still there, with the last_send the
\* worker recorded, for the next call to find.
C16_Witness ==
    \E d \in DOMAIN message_queue :
        /\ ~message_queue[d].processing
        /\ message_queue[d].queue = <<>>
        /\ message_queue[d].since_last_send < MinSpacing
        /\ SentIds(d) # <<>>

\* C17: every entry is held, attempted and sent on the channel whose call
\* appended it: each queue holds entries of its own channel only, a worker
\* holds an entry of the channel it sends on, and every finished
\* channel.send call on a channel was made for an entry of that channel.
C17_OwnChannelOnly ==
    /\ \A d \in DOMAIN message_queue : \A i \in 1..Len(message_queue[d].queue) :
          /\ message_queue[d].queue[i] \in Entries(d)
          /\ message_queue[d].queue[i][1] = d
    /\ \A c \in Tasks : task[c].pc # "ready"
          => /\ task[c].message_data \in Entries(task[c].channel)
             /\ task[c].message_data[1] = task[c].channel
    /\ \A d \in Channels : \A i \in 1..Len(attempts[d]) :
          /\ attempts[d][i].id \in Entries(d)
          /\ attempts[d][i].id[1] = d
    /\ \A d, e \in Channels : d # e => Entries(d) \cap Entries(e) = {}

\* Two channels with successful sends, one of them of two entries.
C17_Witness ==
    \E d, e \in Channels :
        /\ d # e
        /\ Len(SentIds(d)) >= 2
        /\ Len(SentIds(e)) >= 1

\* C18: a channel whose queue holds an entry has its processing flag set and
\* a worker running, whatever the outcomes of the send attempts were.
C18_NoStrandedEntry ==
    \A d \in DOMAIN message_queue :
        message_queue[d].queue # <<>>
            => message_queue[d].processing /\ WorkersOn(d) # {}

\* C19: the processing flag of a channel is set exactly while a task runs
\* process_message_queue for it: it is set in the step that starts the worker
\* and cleared in the step in which the worker returns, with the queue
\* drained or after an exception.
C19_FlagIffWorker ==
    \A d \in Channels :
        (d \in DOMAIN message_queue /\ message_queue[d].processing)
            <=> WorkersOn(d) # {}

\* A worker has returned through the outer exception handler: the flag is
\* clear though the queue still holds the entry.
C19_Witness ==
    \E d \in DOMAIN message_queue :
        /\ attempts[d] # <<>>
        /\ LastAttempt(d).result = "error"
        /\ WorkersOn(d) = {}
        /\ ~message_queue[d].processing
        /\ message_queue[d].queue # <<>>

\* Task c runs the worker of its channel and every answer to the entry it
\* holds has been a 429 so far.
OnlyRateLimited(c) ==
    /\ task[c].pc # "ready"
    /\ attempts[task[c].channel] # <<>>
    /\ LastAttempt(task[c].channel) = Attempt(task[c], "rate_limited")

\* C20: no count is kept of the 429 answers: a worker whose entry has been
\* answered 429, however often, goes on with that entry until an attempt for
\* it ends otherwise.  Until then the worker does not return, the flag stays
\* set, the entry stays at the head, no entry leaves the queue and no other
\* entry of the channel is attempted.
C20_RetriesUnbounded ==
    [][\A c \in Tasks, d \in Channels :
              (OnlyRateLimited(c) /\ task[c].channel = d)
              => \/ AttemptEnds(d) /\ LastAttempt(d)'.result # "rate_limited"
                 \/ /\ task'[c].pc \in {"backoff", "spacing", "sending"}
                    /\ task'[c].channel = d
                    /\ task'[c].message_data = task[c].message_data
                    /\ message_queue'[d].processing
                    /\ Head(message_queue'[d].queue) = task[c].message_data
                    /\ IsSubseq(message_queue[d].queue, message_queue'[d].queue)
                    /\ AttemptEnds(d) => LastAttempt(d)'.id = task[c].message_data]_vars

\* A worker attempts its entry again after as many 429 answers as the
\* history holds, with a later entry waiting behind it.
C20_Witness ==
    \E c \in Tasks :
        /\ OnlyRateLimited(c)
        /\ task[c].pc = "sending"
        /\ RateLimitsOf(task[c].channel, task[c].message_data) = MaxRateLimits
        /\ Len(message_queue[task[c].channel].queue) >= 2

\* The warnings whose warn_member call is still under way.
UnderWay == {command[k].warning : k \in {j \in Commands : command[j].pc # "idle"}}

\* C21: every warning that a completed warn_member call stored, and that
\* neither remove_warning nor clear_warnings nor the cleanup of expired
\* warnings has removed, is in the member's stored data.
C21_NoLostWarning ==
    \A m \in Members : (kept[m] \ UnderWay) \subseteq WarningIds(guild_config, m)

\* C22: since a member's last clear_warnings, the automatic action of each
\* threshold has been applied to the member at most once.
C22_ThresholdOnce ==
    \A m \in Members : \A t \in ActionThresholds : applied_count[m][t] <= 1

\* C23: every game ends once: its attempts never exceed max_attempts, its
\* result is recorded by at most one call of _record_user_answer, and it is
\* removed from active_games once, no removal finding the key already gone.
C23_EndsOnce ==
    /\ \A g \in GameIds :
          /\ games[g].attempts <= max_attempts
          /\ recorded[g] <= 1
          /\ removed[g] <= 1
    /\ key_errors["del"] = 0

\* C24: a play command never replaces the game stored under the key: while
\* a game is stored, a step leaves it stored or removes it, and a play
\* command that finds a game stored at its check is rejected and changes
\* nothing of the games.
C24_NoOverwrite ==
    [][active_games # NoGame =>
          /\ active_games' \in {active_games, NoGame}
          /\ \A k \in Plays :
                (play[k].pc = "checking" /\ play'[k] # play[k]) =>
                    /\ play'[k].pc = "idle"
                    /\ active_games' = active_games
                    /\ games' = games]_vars

\* C26: a safe_send_message call whose channel is None changes nothing of
\* the queues: no queue data is made, nothing is appended, no worker is
\* started and the queue data, the tasks and the sends of every channel are
\* as before the call.
C26_NoneIsNoOp ==
    [][Len(none_calls') > Len(none_calls) =>
          /\ message_queue' = message_queue
          /\ task' = task
          /\ enqueued' = enqueued
          /\ attempts' = attempts]_vars

\* Two calls with channel None have been made: one before any channel had
\* queue data, one while a channel had queue data, a worker and two entries
\* waiting; the entries are still in its queue.
C26_Witness ==
    /\ Len(none_calls) = 2
    /\ none_calls[1].channels = {}
    /\ none_calls[2].workers # {}
    /\ \E d \in none_calls[2].workers :
          /\ d \in DOMAIN message_queue
          /\ Len(message_queue[d].queue) >= 2
    /\ NoChannel \notin DOMAIN message_queue

=============================================================================
